---- MODULE Spec2Model ----
(***************************************************************************)
(* Model of library_agent.py: the three tools of the Library Assistant,    *)
(* the input guardrail function and the dynamic instruction text.          *)
(*                                                                         *)
(* A Python str is a sequence of one-character strings, so that strip(),   *)
(* lower(), `in`, join() and f-string formatting are computed character by *)
(* character.  An Optional value is <<>> (None) or <<v>>.                  *)
(*                                                                         *)
(* bookDb and members are the module globals BOOK_DB and MEMBERS, contexts *)
(* the UserContext values that callers hold, and last the record of the    *)
(* latest call into the module: its arguments and what it returned.  The   *)
(* steps are the calls the agent runner may make: any tool with any        *)
(* arguments, the guardrail on any classifier result, and the instruction  *)
(* text for any context.                                                   *)
(***************************************************************************)
EXTENDS Integers, Sequences, FiniteSets, TLC

VARIABLES bookDb, members, contexts, last

vars == <<bookDb, members, contexts, last>>

None == <<>>

Some(v) == <<v>>

-----------------------------------------------------------------------------
(* Literals of the source *)

\* "Clean Code"
T_CleanCode ==
    <<"C", "l", "e", "a", "n", " ", "C", "o", "d", "e">>

\* "Atomic Habits"
T_AtomicHabits ==
    <<"A", "t", "o", "m", "i", "c", " ", "H", "a", "b", "i", "t", "s">>

\* "The Pragmatic Programmer"
T_PragmaticProgrammer ==
    <<"T", "h", "e", " ", "P", "r", "a", "g", "m", "a", "t", "i", "c", " ", 
      "P", "r", "o", "g", "r", "a", "m", "m", "e", "r">>

\* "Deep Work"
T_DeepWork ==
    <<"D", "e", "e", "p", " ", "W", "o", "r", "k">>

\* "Harry Potter and the Sorcerer's Stone"
T_HarryPotter ==
    <<"H", "a", "r", "r", "y", " ", "P", "o", "t", "t", "e", "r", " ", "a",
      "n", "d", " ", "t", "h", "e", " ", "S", "o", "r", "c", "e", "r", "e",
      "r", "'", "s", " ", "S", "t", "o", "n", "e">>

\* BOOK_DB: a dict keeps its insertion order, so it is a sequence of items
BOOK_DB ==
    << [title |-> T_CleanCode, copies |-> 2],
       [title |-> T_AtomicHabits, copies |-> 5],
       [title |-> T_PragmaticProgrammer, copies |-> 0],
       [title |-> T_DeepWork, copies |-> 1],
       [title |-> T_HarryPotter, copies |-> 3] >>

\* "M001"
M001 ==
    <<"M", "0", "0", "1">>

\* "M002"
M002 ==
    <<"M", "0", "0", "2">>

\* "Muhammad Annas"
N_MuhammadAnnas ==
    <<"M", "u", "h", "a", "m", "m", "a", "d", " ", "A", "n", "n", "a", "s">>

\* "Ali Khan"
N_AliKhan ==
    <<"A", "l", "i", " ", "K", "h", "a", "n">>

MEMBERS ==
    << [member_id |-> M001, name |-> N_MuhammadAnnas],
       [member_id |-> M002, name |-> N_AliKhan] >>

\* "No books found matching '"
S_NoBooksFound ==
    <<"N", "o", " ", "b", "o", "o", "k", "s", " ", "f", "o", "u", "n", "d",
      " ", "m", "a", "t", "c", "h", "i", "n", "g", " ", "'">>

\* "'."
S_QuoteDot ==
    <<"'", ".">>

\* "Found: "
S_Found ==
    <<"F", "o", "u", "n", "d", ":", " ">>

\* ", "
S_CommaSpace ==
    <<",", " ">>

\* "Access denied: availability check is for registered members only."
S_AccessDenied ==
    <<"A", "c", "c", "e", "s", "s", " ", "d", "e", "n", "i", "e", "d", ":",
      " ", "a", "v", "a", "i", "l", "a", "b", "i", "l", "i", "t", "y", " ", 
      "c", "h", "e", "c", "k", " ", "i", "s", " ", "f", "o", "r", " ", "r",
      "e", "g", "i", "s", "t", "e", "r", "e", "d", " ", "m", "e", "m", "b",
      "e", "r", "s", " ", "o", "n", "l", "y", ".">>

\* "Book '"
S_Book ==
    <<"B", "o", "o", "k", " ", "'">>

\* "' not found in catalog."
S_NotFoundInCatalog ==
    <<"'", " ", "n", "o", "t", " ", "f", "o", "u", "n", "d", " ", "i", "n",
      " ", "c", "a", "t", "a", "l", "o", "g", ".">>

\* "'"
S_Quote ==
    <<"'">>

\* "' is currently not available (0 copies)."
S_NotAvailable ==
    <<"'", " ", "i", "s", " ", "c", "u", "r", "r", "e", "n", "t", "l", "y",
      " ", "n", "o", "t", " ", "a", "v", "a", "i", "l", "a", "b", "l", "e",
      " ", "(", "0", " ", "c", "o", "p", "i", "e", "s", ")", ".">>

\* "' EM_DASH "
S_Dash ==
    <<"'", " ", "EM_DASH", " ">>

\* " copies available."
S_CopiesAvailable ==
    <<" ", "c", "o", "p", "i", "e", "s", " ", "a", "v", "a", "i", "l", "a",
      "b", "l", "e", ".">>

\* "Library timings: Mon-Fri 09:00-18:00; Sat 10:00-14:00; Sun closed."
S_Timings ==
    <<"L", "i", "b", "r", "a", "r", "y", " ", "t", "i", "m", "i", "n", "g",
      "s", ":", " ", "M", "o", "n", "-", "F", "r", "i", " ", "0", "9", ":",
      "0", "0", "-", "1", "8", ":", "0", "0", ";", " ", "S", "a", "t", " ", 
      "1", "0", ":", "0", "0", "-", "1", "4", ":", "0", "0", ";", " ", "S",
      "u", "n", " ", "c", "l", "o", "s", "e", "d", ".">>

\* "Library user"
S_LibraryUser ==
    <<"L", "i", "b", "r", "a", "r", "y", " ", "u", "s", "e", "r">>

\* "Hello "
S_Hello ==
    <<"H", "e", "l", "l", "o", " ">>

\* ". You are a helpful Library Assistant.\n- Use search_book to find books.\n- Use check_availability only for registered members.\n- Use get_library_timings for hours.\n- Refuse politely if it's not a library-related query.\nYou may call multiple tools in one query."
S_InstructionsBody ==
    <<".", " ", "Y", "o", "u", " ", "a", "r", "e", " ", "a", " ", "h", "e",
      "l", "p", "f", "u", "l", " ", "L", "i", "b", "r", "a", "r", "y", " ", 
      "A", "s", "s", "i", "s", "t", "a", "n", "t", ".", "\n", "-", " ", 
      "U", "s", "e", " ", "s", "e", "a", "r", "c", "h", "_", "b", "o", "o",
      "k", " ", "t", "o", " ", "f", "i", "n", "d", " ", "b", "o", "o", "k",
      "s", ".", "\n", "-", " ", "U", "s", "e", " ", "c", "h", "e", "c",
      "k", "_", "a", "v", "a", "i", "l", "a", "b", "i", "l", "i", "t", "y",
      " ", "o", "n", "l", "y", " ", "f", "o", "r", " ", "r", "e", "g", "i",
      "s", "t", "e", "r", "e", "d", " ", "m", "e", "m", "b", "e", "r", "s",
      ".", "\n", "-", " ", "U", "s", "e", " ", "g", "e", "t", "_", "l",
      "i", "b", "r", "a", "r", "y", "_", "t", "i", "m", "i", "n", "g", "s",
      " ", "f", "o", "r", " ", "h", "o", "u", "r", "s", ".", "\n", "-",
      " ", "R", "e", "f", "u", "s", "e", " ", "p", "o", "l", "i", "t", "e",
      "l", "y", " ", "i", "f", " ", "i", "t", "'", "s", " ", "n", "o", "t",
      " ", "a", " ", "l", "i", "b", "r", "a", "r", "y", "-", "r", "e", "l",
      "a", "t", "e", "d", " ", "q", "u", "e", "r", "y", ".", "\n", "Y",
      "o", "u", " ", "m", "a", "y", " ", "c", "a", "l", "l", " ", "m", "u",
      "l", "t", "i", "p", "l", "e", " ", "t", "o", "o", "l", "s", " ", "i",
      "n", " ", "o", "n", "e", " ", "q", "u", "e", "r", "y", ".">>

-----------------------------------------------------------------------------
(* Python built-ins used by the source *)

UpperCase ==
    <<"A", "B", "C", "D", "E", "F", "G", "H", "I", "J", "K", "L", "M",
      "N", "O", "P", "Q", "R", "S", "T", "U", "V", "W", "X", "Y", "Z">>

LowerCase ==
    <<"a", "b", "c", "d", "e", "f", "g", "h", "i", "j", "k", "l", "m",
      "n", "o", "p", "q", "r", "s", "t", "u", "v", "w", "x", "y", "z">>

Whitespace == {" ", "\t", "\n", "\r", "\f"}

Digits == <<"0", "1", "2", "3", "4", "5", "6", "7", "8", "9">>

\* the lower-case letter of every upper-case letter
LowerOf ==
    [c \in {UpperCase[i] : i \in DOMAIN UpperCase} |->
        LowerCase[CHOOSE i \in DOMAIN UpperCase : UpperCase[i] = c]]

\* str.lower() of one character
LowerChar(c) == IF c \in DOMAIN LowerOf THEN LowerOf[c] ELSE c

\* str.lower()
lower(s) == [i \in DOMAIN s |-> LowerChar(s[i])]

\* str.strip(): drops the leading and the trailing whitespace
RECURSIVE lstrip(_)
lstrip(s) ==
    IF s # <<>> /\ Head(s) \in Whitespace THEN lstrip(Tail(s)) ELSE s

RECURSIVE rstrip(_)
rstrip(s) ==
    IF s # <<>> /\ s[Len(s)] \in Whitespace
    THEN rstrip(SubSeq(s, 1, Len(s) - 1))
    ELSE s

strip(s) == rstrip(lstrip(s))

\* `needle in hay` on two str
In(needle, hay) ==
    \E i \in 0..(Len(hay) - Len(needle)) :
        SubSeq(hay, i + 1, i + Len(needle)) = needle

\* sep.join(parts), from the k-th part on
RECURSIVE JoinFrom(_, _, _)
JoinFrom(sep, parts, k) ==
    IF k > Len(parts) THEN <<>>
    ELSE IF k = Len(parts) THEN parts[k]
    ELSE parts[k] \o sep \o JoinFrom(sep, parts, k + 1)

\* sep.join(parts)
join(sep, parts) == JoinFrom(sep, parts, 1)

\* str(n) for an int n >= 0, as an f-string formats it
RECURSIVE IntToStr(_)
IntToStr(n) ==
    IF n < 10 THEN <<Digits[n + 1]>>
    ELSE IntToStr(n \div 10) \o <<Digits[(n % 10) + 1]>>

\* dict.keys(), in insertion order
Keys(d) == [i \in DOMAIN d |-> d[i].title]

\* dict.get(key, None)
Get(d, key) ==
    IF \E i \in DOMAIN d : d[i].title = key
    THEN Some(d[CHOOSE i \in DOMAIN d : d[i].title = key].copies)
    ELSE None

\* `key in MEMBERS`
InMembers(key, m) == \E i \in DOMAIN m : m[i].member_id = key

\* truth value of an Optional[str]: None and "" are false
Truthy(opt) == opt # None /\ opt[1] # <<>>

-----------------------------------------------------------------------------
(* Bounds of the model and the inputs drawn from them *)

MaxQueryLen == 2

NumContexts == 2

QueryAlphabet == {"C", "e", " "}

Queries == UNION {[1..n -> QueryAlphabet] : n \in 0..MaxQueryLen}

N_Ann == <<"A", "n", "n">>

M999 == <<"M", "9", "9", "9">>

T_Dune == <<"D", "u", "n", "e">>

\* the values a caller may pass as context: no context at all, or a
\* UserContext with a name and an optional member_id
ContextOptions ==
    {None} \cup
    {Some([name |-> <<>>, member_id |-> m]) : m \in {None, Some(M002)}} \cup
    {Some([name |-> N_Ann, member_id |-> m]) :
        m \in {None, Some(<<>>), Some(M001), Some(M999)}}

\* the book_title arguments the model may supply to check_availability
TitleArgs ==
    {BOOK_DB[i].title : i \in DOMAIN BOOK_DB} \cup
    {lower(T_CleanCode), T_Dune, <<>>, <<" ">> \o T_DeepWork}

\* what Runner.run(guardrail_agent, ...) may hand to the guardrail function
GuardResults ==
    {[kind |-> k, is_library_query |-> FALSE] :
        k \in {"run_raised", "no_final_output", "none", "no_field",
               "bool_raises"}} \cup
    {[kind |-> "verdict", is_library_query |-> b] : b \in BOOLEAN}

-----------------------------------------------------------------------------
(* 1) User Context model *)

\* RunContextWrapper[UserContext]: ctx.context is the caller's context
RunContextWrapper(c) == [context |-> c]

-----------------------------------------------------------------------------
(* 3) Tools *)

\* [title for title in BOOK_DB.keys() if q in title.lower()], from the
\* k-th key on
RECURSIVE MatchesFrom(_, _, _)
MatchesFrom(q, titles, k) ==
    IF k > Len(titles) THEN <<>>
    ELSE (IF In(q, lower(titles[k])) THEN <<titles[k]>> ELSE <<>>)
         \o MatchesFrom(q, titles, k + 1)

\* the comprehension with the slip `q in title`: the title is not lowered
Matches_CaseSensitive(q, titles) ==
    SelectSeq(titles, LAMBDA title : In(q, title))

\* [title for title in BOOK_DB.keys() if q in title.lower()]
Matches(q, titles) == MatchesFrom(q, titles, 1)

\* the body of search_book, run against the store db
search_book_in(db, query) ==
    LET q == lower(strip(query))
        matches == Matches(q, Keys(db))
    IN  [output |-> IF matches = <<>>
                    THEN S_NoBooksFound \o query \o S_QuoteDot
                    ELSE S_Found \o join(S_CommaSpace, matches),
         matches |-> matches,
         db_read |-> TRUE]

search_book(query) == search_book_in(bookDb, query)

\* check_availability with the slip of testing only that a member_id is
\* given, not that it is a key of MEMBERS
check_availability_AnyMemberId(ctx, book_title) ==
    LET user_ctx == ctx.context
    IN  IF \/ user_ctx = None
           \/ ~Truthy(user_ctx[1].member_id)
        THEN [output |-> S_AccessDenied, db_read |-> FALSE]
        ELSE LET copies == Get(bookDb, book_title)
             IN  [output |->
                     IF copies = None
                     THEN S_Book \o book_title \o S_NotFoundInCatalog
                     ELSE IF copies[1] = 0
                     THEN S_Quote \o book_title \o S_NotAvailable
                     ELSE S_Quote \o book_title \o S_Dash
                          \o IntToStr(copies[1]) \o S_CopiesAvailable,
                  db_read |-> TRUE]

\* check_availability with the slip `if not copies:` for
\* `if copies is None:`, which takes 0 copies for a missing title
check_availability_FalsyCopies(ctx, book_title) ==
    LET user_ctx == ctx.context
    IN  IF \/ user_ctx = None
           \/ ~Truthy(user_ctx[1].member_id)
           \/ ~InMembers(user_ctx[1].member_id[1], members)
        THEN [output |-> S_AccessDenied, db_read |-> FALSE]
        ELSE LET copies == Get(bookDb, book_title)
             IN  [output |->
                     IF copies = None \/ copies[1] = 0
                     THEN S_Book \o book_title \o S_NotFoundInCatalog
                     ELSE S_Quote \o book_title \o S_Dash
                          \o IntToStr(copies[1]) \o S_CopiesAvailable,
                  db_read |-> TRUE]

check_availability(ctx, book_title) ==
    LET user_ctx == ctx.context
    IN  IF \/ user_ctx = None
           \/ ~Truthy(user_ctx[1].member_id)
           \/ ~InMembers(user_ctx[1].member_id[1], members)
        THEN [output |-> S_AccessDenied, db_read |-> FALSE]
        ELSE LET copies == Get(bookDb, book_title)
             IN  [output |->
                     IF copies = None
                     THEN S_Book \o book_title \o S_NotFoundInCatalog
                     ELSE IF copies[1] = 0
                     THEN S_Quote \o book_title \o S_NotAvailable
                     ELSE S_Quote \o book_title \o S_Dash
                          \o IntToStr(copies[1]) \o S_CopiesAvailable,
                  db_read |-> TRUE]

get_library_timings == S_Timings

-----------------------------------------------------------------------------
(* 4) Guardrail *)

\* guard_result is what `await Runner.run(guardrail_agent, ...)` gave:
\*   run_raised       the call itself raised (line 120, outside the try)
\*   no_final_output  reading guard_result.final_output raises (lines 122, 127)
\*   none             final_output is None
\*   no_field         final_output has no attribute is_library_query
\*   bool_raises      bool() of the attribute raises (line 123)
\*   verdict          final_output is a GuardrailOutput
library_input_guardrail(guard_result) ==
    IF guard_result.kind = "run_raised"
    THEN [raised |-> TRUE, tripwire_triggered |-> FALSE]
    ELSE LET is_lib ==
                 CASE guard_result.kind \in {"no_final_output", "bool_raises"}
                        -> TRUE
                   [] guard_result.kind \in {"none", "no_field"}
                        -> FALSE
                   [] OTHER -> guard_result.is_library_query
         IN  IF guard_result.kind = "no_final_output"
             THEN [raised |-> TRUE, tripwire_triggered |-> FALSE]
             ELSE [raised |-> FALSE, tripwire_triggered |-> ~is_lib]

-----------------------------------------------------------------------------
(* 5) Dynamic instructions *)

\* dynamic_instructions with the slip of greeting a member by name and
\* member_id
dynamic_instructions_WithMemberId(context) ==
    LET named ==
            /\ context # None
            /\ context[1].context # None
            /\ context[1].context[1].name # <<>>
        name == IF named THEN context[1].context[1].name ELSE S_LibraryUser
        id == IF named /\ context[1].context[1].member_id # None
              THEN <<" ">> \o context[1].context[1].member_id[1]
              ELSE <<>>
    IN  S_Hello \o name \o id \o S_InstructionsBody

\* context is None or Some(RunContextWrapper)
dynamic_instructions(context) ==
    LET name ==
            IF /\ context # None
               /\ context[1].context # None
               /\ context[1].context[1].name # <<>>
            THEN context[1].context[1].name
            ELSE S_LibraryUser
    IN  S_Hello \o name \o S_InstructionsBody

-----------------------------------------------------------------------------
(* State machine: the calls the runner makes into the module *)

\* ctx is the wrapper a call was handed, None when it was handed none
NoCall ==
    [op |-> "none", ctx |-> None, arg |-> <<>>, output |-> <<>>,
     matches |-> <<>>, db_read |-> FALSE, listed |-> FALSE,
     raised |-> FALSE, tripwire_triggered |-> FALSE]

Init ==
    /\ bookDb = BOOK_DB
    /\ members = MEMBERS
    /\ contexts \in {S \in SUBSET ContextOptions :
                        Cardinality(S) \in 1..NumContexts}
    /\ last = NoCall

SearchBook(query) ==
    \E r \in {search_book(query)} :
        /\ last' = [NoCall EXCEPT !.op = "search_book", !.arg = query,
                                  !.output = r.output, !.matches = r.matches,
                                  !.db_read = r.db_read]
        /\ UNCHANGED <<bookDb, members, contexts>>

\* CheckAvailability with a handler that lends a copy out when it reports
\* one
CheckAvailability_Borrow(ctx, book_title, listed) ==
    \E r \in {check_availability(ctx, book_title)} :
        /\ last' = [NoCall EXCEPT !.op = "check_availability",
                                  !.ctx = Some(ctx),
                                  !.arg = book_title, !.output = r.output,
                                  !.db_read = r.db_read, !.listed = listed]
        /\ bookDb' = [k \in DOMAIN bookDb |->
                         IF /\ r.db_read
                            /\ bookDb[k].title = book_title
                            /\ bookDb[k].copies > 0
                         THEN [bookDb[k] EXCEPT !.copies = @ - 1]
                         ELSE bookDb[k]]
        /\ UNCHANGED <<members, contexts>>

\* listed: book_title is one of the titles the preceding search_book listed
CheckAvailability(ctx, book_title, listed) ==
    \E r \in {check_availability(ctx, book_title)} :
        /\ last' = [NoCall EXCEPT !.op = "check_availability",
                                  !.ctx = Some(ctx),
                                  !.arg = book_title, !.output = r.output,
                                  !.db_read = r.db_read, !.listed = listed]
        /\ UNCHANGED <<bookDb, members, contexts>>

GetLibraryTimings ==
    /\ last' = [NoCall EXCEPT !.op = "get_library_timings",
                              !.output = get_library_timings]
    /\ UNCHANGED <<bookDb, members, contexts>>

LibraryInputGuardrail(guard_result) ==
    \E r \in {library_input_guardrail(guard_result)} :
        /\ last' = [NoCall EXCEPT !.op = "library_input_guardrail",
                                  !.arg = guard_result, !.raised = r.raised,
                                  !.tripwire_triggered = r.tripwire_triggered]
        /\ UNCHANGED <<bookDb, members, contexts>>

\* context is None when the function is handed no wrapper at all
DynamicInstructions(context) ==
    /\ last' = [NoCall EXCEPT !.op = "dynamic_instructions",
                              !.ctx = context,
                              !.output = dynamic_instructions(context)]
    /\ UNCHANGED <<bookDb, members, contexts>>

Next ==
    \/ \E query \in Queries : SearchBook(query)
    \/ \E c \in contexts, book_title \in TitleArgs :
           CheckAvailability(RunContextWrapper(c), book_title, FALSE)
    \/ \E c \in contexts, k \in DOMAIN last.matches :
           /\ last.op = "search_book"
           /\ CheckAvailability(RunContextWrapper(c), last.matches[k], TRUE)
    \/ GetLibraryTimings
    \/ \E guard_result \in GuardResults :
           LibraryInputGuardrail(guard_result)
    \/ \E c \in contexts :
           DynamicInstructions(Some(RunContextWrapper(c)))
    \/ DynamicInstructions(None)

Spec == Init /\ [][Next]_vars

-----------------------------------------------------------------------------
(* Properties *)

\* the caller of the last call, as the claims describe callers: by the
\* literal member ids of MEMBERS, not by the handler's own test
Caller == last.ctx[1].context

Registered(c) ==
    /\ c # None
    /\ c[1].member_id \in {Some(M001), Some(M002)}

\* C2: a check_availability call whose Context is absent, has no member_id
\* or has a member_id that is not in MEMBERS returns the fixed denial
\* string without reading BOOK_DB, and would return that same string for
\* every other book_title (existing, zero-copy or nonexistent).
C2_UnauthorizedDenied ==
    (last.op = "check_availability" /\ ~Registered(Caller)) =>
        /\ last.output = S_AccessDenied
        /\ ~last.db_read
        /\ \A t \in TitleArgs :
               check_availability(RunContextWrapper(Caller), t).output
                   = last.output

\* a caller with an unknown member_id has asked for an existing title
C2_Witness ==
    /\ last.op = "check_availability"
    /\ Caller # None
    /\ Caller[1].member_id = Some(M999)
    /\ last.arg = T_CleanCode
    /\ last.output = S_AccessDenied

\* C3 (as claimed): when the classification call fails, or its output has
\* no is_library_query field, or there is no output at all, the guardrail
\* returns normally with tripwire_triggered = FALSE.
C3_FailOpen ==
    (/\ last.op = "library_input_guardrail"
     /\ last.arg.kind \in {"run_raised", "none", "no_field"}) =>
        /\ ~last.raised
        /\ ~last.tripwire_triggered

\* the expected strings of check_availability, written out from the claim
NotFoundString(t) == S_Book \o t \o S_NotFoundInCatalog

ZeroCopiesString(t) == S_Quote \o t \o S_NotAvailable

CopiesString(t, n) ==
    S_Quote \o t \o S_Dash \o IntToStr(n) \o S_CopiesAvailable

CatalogTitles == {BOOK_DB[i].title : i \in DOMAIN BOOK_DB}

CopiesOf(t) == BOOK_DB[CHOOSE i \in DOMAIN BOOK_DB : BOOK_DB[i].title = t].copies

CopyCounts == {BOOK_DB[i].copies : i \in DOMAIN BOOK_DB} \ {0}

\* C4: for an authorized caller check_availability returns the not-found
\* string iff the title is no key of BOOK_DB, the zero-copies string iff
\* the title has 0 copies and the 'N copies available' string iff it has
\* N > 0 copies; for every title these outcomes and the denial string are
\* pairwise different.
C4_ThreeOutcomes ==
    (last.op = "check_availability" /\ Registered(Caller)) =>
        LET t == last.arg
        IN  /\ (last.output = NotFoundString(t)) <=> (t \notin CatalogTitles)
            /\ (last.output = ZeroCopiesString(t)) <=>
                   (t \in CatalogTitles /\ CopiesOf(t) = 0)
            /\ \A n \in CopyCounts :
                   (last.output = CopiesString(t, n)) <=>
                       (t \in CatalogTitles /\ CopiesOf(t) = n)
            /\ last.output \in
                   {NotFoundString(t), ZeroCopiesString(t)} \cup
                   {CopiesString(t, n) : n \in CopyCounts}
            /\ \A u \in TitleArgs :
                   /\ NotFoundString(t) # ZeroCopiesString(u)
                   /\ S_AccessDenied \notin
                          {NotFoundString(u), ZeroCopiesString(u)}
                   /\ \A n \in CopyCounts :
                          /\ CopiesString(u, n) # NotFoundString(t)
                          /\ CopiesString(u, n) # ZeroCopiesString(t)
                          /\ CopiesString(u, n) # S_AccessDenied

\* a member has asked for the zero-copy title
C4_Witness ==
    /\ last.op = "check_availability"
    /\ Registered(Caller)
    /\ last.arg = T_PragmaticProgrammer
    /\ last.output = ZeroCopiesString(T_PragmaticProgrammer)

\* the display name of a context
NameOf(c) == IF c = None THEN <<>> ELSE c[1].name

\* C8: the instruction text depends on the Context only through its name:
\* every Context with the same name and another member_id gives the same
\* text; with an absent Context or an empty name the text greets
\* 'Library user'.
C8_NameOnly ==
    (last.op = "dynamic_instructions") =>
        LET c == IF last.ctx = None THEN None ELSE Caller
        IN  /\ \A c2 \in ContextOptions :
                   (c # None /\ c2 # None /\ c2[1].name = c[1].name) =>
                       dynamic_instructions(Some(RunContextWrapper(c2)))
                           = last.output
            /\ (NameOf(c) = <<>>) =>
                   last.output = S_Hello \o S_LibraryUser \o S_InstructionsBody
            /\ (NameOf(c) # <<>>) =>
                   last.output = S_Hello \o NameOf(c) \o S_InstructionsBody

\* the text was composed for a named member
C8_Witness ==
    /\ last.op = "dynamic_instructions"
    /\ last.ctx # None
    /\ Caller = Some([name |-> N_Ann, member_id |-> Some(M001)])
    /\ last.output = S_Hello \o N_Ann \o S_InstructionsBody

\* C9: no call of search_book, check_availability or get_library_timings
\* changes BOOK_DB, MEMBERS or a Context, and repeating the call made
\* before a step, with the same arguments and the same Context, returns
\* after the step the result it returned before.
C9_ReadOnly ==
    [][/\ bookDb' = bookDb
       /\ members' = members
       /\ contexts' = contexts
       /\ \A q \in Queries :
              (last.op = "search_book" /\ last.arg = q) =>
                  search_book_in(bookDb', q).output = last.output
       /\ \A c \in contexts, t \in TitleArgs :
              (last.op = "check_availability"
                   /\ last.ctx = Some(RunContextWrapper(c))
                   /\ last.arg = t) =>
                  check_availability(RunContextWrapper(c), t)'.output
                      = last.output
       /\ (last.op = "get_library_timings") =>
              get_library_timings' = last.output]_vars

\* a member has been told the copy count of a title, the store as built
C9_Witness ==
    /\ last.op = "check_availability"
    /\ Registered(Caller)
    /\ last.arg = T_DeepWork
    /\ last.output = CopiesString(T_DeepWork, 1)
    /\ bookDb = BOOK_DB
    /\ members = MEMBERS

\* the trimmed query: what lies between its first and its last character
\* that is not whitespace
Trimmed(q) ==
    LET solid == {i \in DOMAIN q : q[i] \notin Whitespace}
    IN  IF solid = {} THEN <<>>
        ELSE SubSeq(q, CHOOSE i \in solid : \A j \in solid : i <= j,
                       CHOOSE i \in solid : \A j \in solid : j <= i)

\* title contains the text p, whatever the case of the letters
ContainsNoCase(title, p) ==
    \E off \in 0..(Len(title) - Len(p)) :
        \A k \in 1..Len(p) : LowerChar(title[off + k]) = LowerChar(p[k])

\* the titles of BOOK_DB that match a query, in the order of BOOK_DB
MatchingTitles(q) ==
    LET Hit(item) == ContainsNoCase(item.title, Trimmed(q))
    IN  Keys(SelectSeq(BOOK_DB, Hit))

\* C10: search_book returns the not-found string iff no catalog title
\* contains the trimmed query case-insensitively and otherwise lists
\* exactly the matching titles as keyed in BOOK_DB; check_availability by
\* a registered member on a title that search_book listed never returns
\* the not-found string but the copy count or the zero-copies string.
C10_SearchThenAvailability ==
    /\ (last.op = "search_book") =>
           LET hits == MatchingTitles(last.arg)
           IN  /\ (last.output = S_NoBooksFound \o last.arg \o S_QuoteDot)
                      <=> (hits = <<>>)
               /\ (hits # <<>>) =>
                      /\ last.matches = hits
                      /\ last.output = S_Found \o join(S_CommaSpace, hits)
    /\ (last.op = "check_availability" /\ last.listed
            /\ Registered(Caller)) =>
           /\ last.output # NotFoundString(last.arg)
           /\ last.output \in
                  {ZeroCopiesString(last.arg)} \cup
                  {CopiesString(last.arg, n) : n \in CopyCounts}

\* a member has checked the zero-copy title that the preceding search_book
\* listed
C10_Witness ==
    /\ last.op = "check_availability"
    /\ last.listed
    /\ Registered(Caller)
    /\ last.arg = T_PragmaticProgrammer
    /\ last.output = ZeroCopiesString(T_PragmaticProgrammer)

====
